---- MODULE Spec2Model ----
(***************************************************************************)
(* Model of packages/@vue/cli/lib/Generator.js: the Generator constructor  *)
(* (discovery pass, apply pass), extractConfigFiles, resolveFiles,         *)
(* sortPkg, generate and hasPlugin.                                        *)
(*                                                                         *)
(* JavaScript objects are ordered: an object is a sequence of entries      *)
(* [k |-> key, v |-> value] in insertion order.  Texts (file contents) are *)
(* sequences of tokens; a path is a sequence of segments and separators.   *)
(***************************************************************************)
EXTENDS Integers, Sequences, FiniteSets, TLC

VARIABLES
  pc,                  \* position of the caller: constructor / generate steps
  plugins,             \* this.plugins: the explicit invocation list
  modules,             \* what loadModule(`${id}/generator`) yields per installed id
  installed,           \* what pm.getInstalledVersion(id) yields per id
  testMode,            \* process.env.VUE_CLI_TEST
  originalPkg,         \* this.originalPkg
  pkg,                 \* this.pkg
  files,               \* this.files, the virtual file tree
  imports,             \* this.imports
  rootOptions,         \* this.rootOptions
  configTransforms,    \* this.configTransforms
  afterInvokeCbs,      \* this.afterInvokeCbs
  afterAnyInvokeCbs,   \* this.afterAnyInvokeCbs
  postProcessFilesCbs, \* this.postProcessFilesCbs
  fileMiddlewares,     \* this.fileMiddlewares
  exitLogs,            \* this.exitLogs
  allPlugins,          \* this.allPlugins
  seedAfterInvoke,     \* the constructor's afterInvokeCbs argument
  savedAny,            \* the local afterAnyInvokeCbsFromPlugins
  applyAny,            \* history: after-any-invoke callbacks registered in the apply pass
  pi,                  \* index of the next plugin of plugins.forEach
  extractLog,          \* history: the extractConfigFiles calls made, newest last
  initialFiles,        \* the local initialFiles of generate
  mi,                  \* index of the next callback of the running for..of loop
  atInjection,         \* history: the tree as the injection stage found it
  codemodCalls,        \* history: the runCodemod calls made, in order
  written,             \* history: the writeFileTree calls made, in order
  query,               \* the last hasPlugin call and its result
  logged,              \* history: what printExitLogs handed to the logger
  trace                \* history: the steps of resolveFiles taken, in order

vars == << pc, plugins, modules, installed, testMode, originalPkg, pkg, files,
           imports, rootOptions, configTransforms, afterInvokeCbs,
           afterAnyInvokeCbs, postProcessFilesCbs, fileMiddlewares, exitLogs,
           allPlugins, seedAfterInvoke, savedAny, applyAny, pi, extractLog,
           initialFiles, mi, atInjection, codemodCalls, written, query, logged, trace >>

----------------------------------------------------------------------------
(* Bounds *)

MaxPlugins == 2

MaxExtractCalls == 2

----------------------------------------------------------------------------
(* Generic helpers *)

Range(s) == { s[i] : i \in DOMAIN s }

SeqsUpTo(S, n) == UNION { [1..k -> S] : k \in 0..n }

NoDup(s) == \A i, j \in DOMAIN s : s[i] = s[j] => i = j

IndexOf(s, x) == IF x \in Range(s) THEN CHOOSE i \in DOMAIN s : s[i] = x /\ \A j \in 1..(i-1) : s[j] # x ELSE 0

----------------------------------------------------------------------------
(* JavaScript values and ordered objects *)

Str(s) == [t |-> "str", s |-> s, o |-> << >>]

Obj(o) == [t |-> "obj", s |-> "", o |-> o]

Undef == [t |-> "undef", s |-> "", o |-> << >>]

\* JS truthiness: undefined and the empty string are falsy, objects are truthy
Truthy(v) == v.t = "obj" \/ (v.t = "str" /\ v.s # "")

Entry(k, v) == [k |-> k, v |-> v]

Keys(o) == [i \in DOMAIN o |-> o[i].k]

Has(o, k) == \E i \in DOMAIN o : o[i].k = k

\* o[k]: undefined when the key is absent
Get(o, k) == IF Has(o, k) THEN o[CHOOSE i \in DOMAIN o : o[i].k = k].v ELSE Undef

\* o[k] = v: an existing key keeps its place, a new key goes last
Put(o, k, v) == IF Has(o, k) THEN [i \in DOMAIN o |-> IF o[i].k = k THEN Entry(k, v) ELSE o[i]] ELSE Append(o, Entry(k, v))

\* delete o[k]
Del(o, k) == SelectSeq(o, LAMBDA e : e.k # k)

----------------------------------------------------------------------------
(* Plugin ids (@vue/cli-shared-utils pluginResolution) *)

\* per id: whether pluginRE matches, id.replace(pluginRE, ''), id.replace(scopeRE, '')
IdTable ==
  [ a \in {"@vue/cli-plugin-babel"} |-> [plugin |-> TRUE, short |-> "babel", unscoped |-> "cli-plugin-babel"] ] @@
  [ a \in {"vue-cli-plugin-foo"} |-> [plugin |-> TRUE, short |-> "foo", unscoped |-> "vue-cli-plugin-foo"] ] @@
  [ a \in {"@vue/cli-service"} |-> [plugin |-> FALSE, short |-> "@vue/cli-service", unscoped |-> "cli-service"] ] @@
  [ a \in {"@vue/babel"} |-> [plugin |-> FALSE, short |-> "@vue/babel", unscoped |-> "babel"] ] @@
  [ a \in {"lodash", "babel", "foo", "bar"} |-> [plugin |-> FALSE, short |-> a, unscoped |-> a] ]

AllIds == DOMAIN IdTable

isPlugin(id) == IdTable[id].plugin

toShortPluginId(id) == IdTable[id].short

matchesPluginId(input, full) ==
  \/ full = input
  \/ toShortPluginId(full) = input
  \/ toShortPluginId(full) = IdTable[input].unscoped

PluginIds == { id \in AllIds : isPlugin(id) }

----------------------------------------------------------------------------
(* The GeneratorAPI handle: what a plugin function can ask of the generator *)

NoPath == << >>

MkOp(op, path, item, key, val, w) == [op |-> op, path |-> path, item |-> item, key |-> key, val |-> val, w |-> w]

OpAfterAnyInvoke == MkOp("afterAnyInvoke", NoPath, "", "", Undef, << >>)

OpAfterInvoke == MkOp("afterInvoke", NoPath, "", "", Undef, << >>)

OpPostProcessFiles(w) == MkOp("postProcessFiles", NoPath, "", "", Undef, w)

OpRender(w) == MkOp("render", NoPath, "", "", Undef, w)

OpInjectImports(path, item) == MkOp("injectImports", path, item, "", Undef, << >>)

OpInjectRootOptions(path, item) == MkOp("injectRootOptions", path, item, "", Undef, << >>)

OpExtendPackage(key, val) == MkOp("extendPackage", NoPath, "", key, val, << >>)

OpAddConfigTransform(key, cands) == MkOp("addConfigTransform", NoPath, "", key, Undef, cands)

OpExitLog(msg, type) == MkOp("exitLog", NoPath, msg, type, Undef, << >>)

\* the plugin function throws at this point
OpThrow == MkOp("throw", NoPath, "", "", Undef, << >>)

\* a callback closure: who created it, in which pass, at which call, and what it does to the tree
Cb(by, pass, at, n, w) == [by |-> by, pass |-> pass, at |-> at, n |-> n, w |-> w]

\* one write of a whole-tree callback: set files[path] = text, or delete files[path]
Write(path, text) == [path |-> path, text |-> text, del |-> FALSE, throw |-> FALSE]

Remove(path) == [path |-> path, text |-> << >>, del |-> TRUE, throw |-> FALSE]

\* the callback throws (or its promise rejects) at this point
Throw == [path |-> NoPath, text |-> << >>, del |-> FALSE, throw |-> TRUE]

\* the callback does not run to its end
Throws(w) == \E i \in DOMAIN w : w[i].throw

\* ledger[path] gets item unless it is in the set already (a Set keeps first-insertion order)
LedgerAdd(ledger, path, item) ==
  IF path \in DOMAIN ledger
  THEN IF item \in Range(ledger[path]) THEN ledger ELSE [ledger EXCEPT ![path] = Append(@, item)]
  ELSE ledger @@ (path :> << item >>)

G == [ pkg |-> pkg, files |-> files, imports |-> imports, rootOptions |-> rootOptions,
       configTransforms |-> configTransforms, afterInvokeCbs |-> afterInvokeCbs,
       afterAnyInvokeCbs |-> afterAnyInvokeCbs, postProcessFilesCbs |-> postProcessFilesCbs,
       fileMiddlewares |-> fileMiddlewares, exitLogs |-> exitLogs, thrown |-> FALSE ]

ApiCall(g, id, pass, at, n, op) ==
  CASE op.op = "afterAnyInvoke" -> [g EXCEPT !.afterAnyInvokeCbs = Append(@, Cb(id, pass, at, n, op.w))]
    [] op.op = "afterInvoke" -> [g EXCEPT !.afterInvokeCbs = Append(@, Cb(id, pass, at, n, op.w))]
    [] op.op = "postProcessFiles" -> [g EXCEPT !.postProcessFilesCbs = Append(@, Cb(id, pass, at, n, op.w))]
    [] op.op = "render" -> [g EXCEPT !.fileMiddlewares = Append(@, Cb(id, pass, at, n, op.w))]
    [] op.op = "injectImports" -> [g EXCEPT !.imports = LedgerAdd(@, op.path, op.item)]
    [] op.op = "injectRootOptions" -> [g EXCEPT !.rootOptions = LedgerAdd(@, op.path, op.item)]
    [] op.op = "extendPackage" -> [g EXCEPT !.pkg = Put(@, op.key, op.val)]
    [] op.op = "addConfigTransform" -> [g EXCEPT !.configTransforms = (op.key :> op.w) @@ @]
    [] op.op = "exitLog" -> [g EXCEPT !.exitLogs = Append(@, [id |-> id, msg |-> op.item, type |-> op.key])]
    [] op.op = "throw" -> [g EXCEPT !.thrown = TRUE]
    [] OTHER -> g

RECURSIVE RunFrom(_, _, _, _, _, _)
RunFrom(g, id, pass, at, ops, n) ==
  IF n > Len(ops) \/ g.thrown THEN g ELSE RunFrom(ApiCall(g, id, pass, at, n, ops[n]), id, pass, at, ops, n + 1)

\* a plugin function (apply or hooks) called with an API handle bound to id
RunFn(g, id, pass, at, ops) == RunFrom(g, id, pass, at, ops, 1)

----------------------------------------------------------------------------
(* Generator constructor *)

\* a loaded generator module: absent, or with or without a hooks export
NoModule == [generator |-> FALSE, hasHooks |-> FALSE, hooks |-> << >>]

ModuleNoHooks == [generator |-> TRUE, hasHooks |-> FALSE, hooks |-> << >>]

ModuleWithHooks(ops) == [generator |-> TRUE, hasHooks |-> TRUE, hooks |-> ops]

Plugin(id, apply, hasHooks, hooks) == [id |-> id, apply |-> apply, hasHooks |-> hasHooks, hooks |-> hooks]

\* Object.keys(o || {})
KeysOrEmpty(v) == IF v.t = "obj" THEN Keys(v.o) ELSE << >>

\* a variant that forgets devDependencies
ComputeAllPlugins_DepsOnly(p) ==
  SelectSeq(KeysOrEmpty(Get(p, "dependencies")), isPlugin)

\* lines 104-106
ComputeAllPlugins(p) ==
  SelectSeq(KeysOrEmpty(Get(p, "dependencies")) \o KeysOrEmpty(Get(p, "devDependencies")), isPlugin)

\* lines 114-121: hooks of every installed plugin, in allPlugins order
RECURSIVE DiscoveryFrom(_, _, _)
DiscoveryFrom(g, ids, i) ==
  IF i > Len(ids) \/ g.thrown THEN g
  ELSE LET m == modules[ids[i]]
       IN DiscoveryFrom(IF m.generator /\ m.hasHooks THEN RunFn(g, ids[i], "discovery", i, m.hooks) ELSE g, ids, i + 1)

SetG(g) ==
  /\ pkg' = g.pkg
  /\ files' = g.files
  /\ imports' = g.imports
  /\ rootOptions' = g.rootOptions
  /\ configTransforms' = g.configTransforms
  /\ afterInvokeCbs' = g.afterInvokeCbs
  /\ afterAnyInvokeCbs' = g.afterAnyInvokeCbs
  /\ postProcessFilesCbs' = g.postProcessFilesCbs
  /\ fileMiddlewares' = g.fileMiddlewares
  /\ exitLogs' = g.exitLogs

\* a variant that does not reset the post-process list after the discovery pass
DiscoveryPass_KeepPostProcess ==
  /\ pc = "new"
  /\ LET ids == ComputeAllPlugins(pkg)
         g == DiscoveryFrom(G, ids, 1)
     IN /\ allPlugins' = ids
        /\ IF g.thrown
           THEN /\ savedAny' = savedAny
                /\ SetG(g)
                /\ pc' = "thrown"
           ELSE /\ savedAny' = g.afterAnyInvokeCbs
                /\ SetG([g EXCEPT !.afterInvokeCbs = seedAfterInvoke,
                                  !.afterAnyInvokeCbs = << >>,
                                  !.postProcessFilesCbs = g.postProcessFilesCbs])
                /\ pc' = "apply"
  /\ pi' = 1
  /\ UNCHANGED << plugins, modules, installed, testMode, originalPkg, seedAfterInvoke,
                  applyAny, extractLog, initialFiles, mi, atInjection, codemodCalls,
                  written, query, logged, trace >>

\* lines 101-130: the discovery pass, then save the "any" hooks and reset the hook lists
DiscoveryPass ==
  /\ pc = "new"
  /\ LET ids == ComputeAllPlugins(pkg)
         g == DiscoveryFrom(G, ids, 1)
     IN /\ allPlugins' = ids
        /\ IF g.thrown
           THEN /\ savedAny' = savedAny
                /\ SetG(g)
                /\ pc' = "thrown"
           ELSE /\ savedAny' = g.afterAnyInvokeCbs
                /\ SetG([g EXCEPT !.afterInvokeCbs = seedAfterInvoke,
                                  !.afterAnyInvokeCbs = << >>,
                                  !.postProcessFilesCbs = << >>])
                /\ pc' = "apply"
  /\ pi' = 1
  /\ UNCHANGED << plugins, modules, installed, testMode, originalPkg, seedAfterInvoke,
                  applyAny, extractLog, initialFiles, mi, atInjection, codemodCalls,
                  written, query, logged, trace >>

\* lines 133-140: one round of plugins.forEach: apply, then apply.hooks if present
ApplyOne(g, p, i) ==
  LET g1 == RunFn(g, p.id, "apply", i, p.apply)
  IN IF p.hasHooks /\ ~g1.thrown THEN RunFn(g1, p.id, "applyHooks", i, p.hooks) ELSE g1

ApplyPlugin ==
  /\ pc = "apply"
  /\ pi <= Len(plugins)
  /\ SetG(ApplyOne(G, plugins[pi], pi))
  /\ pc' = IF ApplyOne(G, plugins[pi], pi).thrown THEN "thrown" ELSE pc
  /\ pi' = pi + 1
  /\ UNCHANGED << plugins, modules, installed, testMode, originalPkg, allPlugins,
                  seedAfterInvoke, savedAny, applyAny, extractLog, initialFiles, mi,
                  atInjection, codemodCalls, written, query, logged, trace >>

\* a variant that merges instead of loading: apply-pass entries, then the saved ones
LoadAnyHooksValue_Merge(saved, current) == current \o saved

\* line 143: load the "any" hooks
LoadAnyHooksValue(saved, current) == saved

LoadAnyHooks ==
  /\ pc = "apply"
  /\ pi > Len(plugins)
  /\ afterAnyInvokeCbs' = LoadAnyHooksValue(savedAny, afterAnyInvokeCbs)
  /\ applyAny' = afterAnyInvokeCbs
  /\ pc' = "constructed"
  /\ UNCHANGED << plugins, modules, installed, testMode, originalPkg, pkg, files, imports,
                  rootOptions, configTransforms, afterInvokeCbs, postProcessFilesCbs,
                  fileMiddlewares, exitLogs, allPlugins, seedAfterInvoke, savedAny, pi,
                  extractLog, initialFiles, mi, atInjection, codemodCalls, written, query, logged, trace >>

----------------------------------------------------------------------------
(* Config transforms and extractConfigFiles *)

\* one candidate file of a ConfigTransform: its format and its name
Cand(type, name) == [type |-> type, file |-> << name >>]

\* lines 23-53
defaultConfigTransforms ==
  ("babel" :> << Cand("js", "babel.config.js") >>) @@
  ("postcss" :> << Cand("js", "postcss.config.js"), Cand("json", ".postcssrc.json"), Cand("json", ".postcssrc"),
                   Cand("yaml", ".postcssrc.yaml"), Cand("yaml", ".postcssrc.yml") >>) @@
  ("eslintConfig" :> << Cand("js", ".eslintrc.js"), Cand("json", ".eslintrc"), Cand("json", ".eslintrc.json"),
                        Cand("yaml", ".eslintrc.yaml"), Cand("yaml", ".eslintrc.yml") >>) @@
  ("jest" :> << Cand("js", "jest.config.js") >>) @@
  ("browserslist" :> << Cand("lines", ".browserslistrc") >>)

\* lines 55-61
reservedConfigTransforms == ("vue" :> << Cand("js", "vue.config.js") >>)

\* a variant that lets the plugins' transforms win over the reserved ones
MergedConfigTransforms_PluginsLast(own) == own @@ reservedConfigTransforms @@ defaultConfigTransforms

\* lines 164-168: Object.assign({}, defaults, this.configTransforms, reserved), later sources win
MergedConfigTransforms(own) == reservedConfigTransforms @@ own @@ defaultConfigTransforms

\* lines 63-68
ensureEOL(str) == IF Len(str) > 0 /\ str[Len(str)] = "\n" THEN str ELSE Append(str, "\n")

RECURSIVE JsonEntries(_)
JsonEntries(o) ==
  IF o = << >> THEN << >>
  ELSE (IF Head(o).v.t = "undef" THEN << >> ELSE << Head(o).k, ":", Head(o).v.s, "," >>) \o JsonEntries(Tail(o))

\* the text of a value: a string, or the entries of an object between braces
JsonValue(v) == IF v.t = "obj" THEN << "{" >> \o JsonEntries(v.o) \o << "}" >> ELSE << v.s >>

\* files[name] as a condition: the entry exists and is not the empty text
FileTruthy(tree, name) == name \in DOMAIN tree /\ tree[name] # << >>

\* ConfigTransform.findFile: the first candidate in the tree or on disk, 0 if none
FindFile(desc, tree, disk) ==
  LET hits == { i \in DOMAIN desc : FileTruthy(tree, desc[i].file) \/ desc[i].file \in disk }
  IN IF hits = {} THEN 0 ELSE CHOOSE i \in hits : \A j \in hits : i <= j

\* ConfigTransform.transform: the target file (an existing candidate when
\* checkExisting finds one, else the first) and the value written in its format
Transform(desc, value, checkExisting, tree, disk) ==
  LET i == IF checkExisting THEN FindFile(desc, tree, disk) ELSE 0
      d == IF i = 0 THEN desc[1] ELSE desc[i]
      existing == checkExisting /\ (FileTruthy(tree, d.file) \/ d.file \in disk)
  IN [ filename |-> d.file,
       content |-> << d.type >> \o JsonValue(value) \o (IF existing THEN << "+existing" >> ELSE << >>)
                   \o (IF d.type = "yaml" THEN << "\n" >> ELSE << >>) ]

\* the working manifest and tree, as extractConfigFiles passes them along
PkgFiles(p, f) == [pkg |-> p, files |-> f]

\* a variant that extracts without removing the field from the manifest
extract_KeepField(st, key, checkExisting, disk, transforms, orig) ==
  IF key \in DOMAIN transforms /\ Truthy(Get(st.pkg, key)) /\ ~Truthy(Get(orig, key))
  THEN LET res == Transform(transforms[key], Get(st.pkg, key), checkExisting, st.files, disk)
       IN PkgFiles(st.pkg, (res.filename :> ensureEOL(res.content)) @@ st.files)
  ELSE st

\* lines 169-188
extract(st, key, checkExisting, disk, transforms, orig) ==
  IF key \in DOMAIN transforms /\ Truthy(Get(st.pkg, key)) /\ ~Truthy(Get(orig, key))
  THEN LET res == Transform(transforms[key], Get(st.pkg, key), checkExisting, st.files, disk)
       IN PkgFiles(Del(st.pkg, key), (res.filename :> ensureEOL(res.content)) @@ st.files)
  ELSE st

\* lines 190-192: for (const key in this.pkg) extract(key)
RECURSIVE ExtractEach(_, _, _, _, _, _)
ExtractEach(st, keys, checkExisting, disk, transforms, orig) ==
  IF keys = << >> THEN st
  ELSE ExtractEach(extract(st, Head(keys), checkExisting, disk, transforms, orig), Tail(keys), checkExisting, disk, transforms, orig)

\* lines 163-203
extractConfigFiles(st, extractAll, checkExisting, disk, own, orig, test) ==
  LET transforms == MergedConfigTransforms(own)
  IN IF extractAll
     THEN ExtractEach(st, Keys(st.pkg), checkExisting, disk, transforms, orig)
     ELSE LET st1 == IF ~test THEN extract(st, "vue", checkExisting, disk, transforms, orig) ELSE st
          IN extract(st1, "babel", checkExisting, disk, transforms, orig)

\* what the project directory may hold before the run
DiskStates == { {}, { << ".eslintrc.json" >> }, { << "babel.config.js" >> } }

ExtractCall(extractAll, checkExisting) == [extractAll |-> extractAll, checkExisting |-> checkExisting]

\* a direct call of generator.extractConfigFiles(extractAll, checkExisting)
ExtractConfigFilesCall ==
  /\ pc = "constructed"
  /\ Len(extractLog) < MaxExtractCalls
  /\ \E extractAll \in BOOLEAN, checkExisting \in BOOLEAN, disk \in DiskStates :
       LET st == extractConfigFiles(PkgFiles(pkg, files), extractAll, checkExisting, disk, configTransforms, originalPkg, testMode)
       IN /\ pkg' = st.pkg
          /\ files' = st.files
          /\ extractLog' = Append(extractLog, ExtractCall(extractAll, checkExisting))
  /\ UNCHANGED << pc, plugins, modules, installed, testMode, originalPkg, imports, rootOptions,
                  configTransforms, afterInvokeCbs, afterAnyInvokeCbs, postProcessFilesCbs,
                  fileMiddlewares, exitLogs, allPlugins, seedAfterInvoke, savedAny, applyAny,
                  pi, initialFiles, mi, atInjection, codemodCalls, written, query, logged, trace >>

----------------------------------------------------------------------------
(* generate and resolveFiles *)

\* slash(path): every backslash separator becomes a forward slash
Slash(path) == [i \in DOMAIN path |-> IF path[i] = "\\" THEN "/" ELSE path[i]]

\* the tree without the entry at path
Without(tree, path) == [q \in DOMAIN tree \ { path } |-> tree[q]]

\* what a whole-tree callback (file middleware, post-process callback) does to the tree
RECURSIVE ApplyWrites(_, _)
ApplyWrites(tree, w) ==
  IF w = << >> \/ Head(w).throw THEN tree
  ELSE ApplyWrites(IF Head(w).del THEN Without(tree, Head(w).path) ELSE (Head(w).path :> Head(w).text) @@ tree, Tail(w))

\* the trees normalizeFilePaths can leave: one entry per location, holding the
\* content of one of the entries that named the location
NormalizedTrees(tree) ==
  LET locs == { Slash(p) : p \in DOMAIN tree }
  IN { [l \in locs |-> tree[pick[l]]] :
         pick \in { f \in [locs -> DOMAIN tree] : \A l \in locs : Slash(f[l]) = l } }

\* the injection engine: the new text is a function of the codemod, the source and the list
runCodemod(kind, source, list) == << kind, "(" >> \o list \o << ")" >> \o source

\* a variant that hands the ledger's entries over newest first
InjectionList_Reversed(ledger, file) ==
  IF file \in DOMAIN ledger THEN [i \in DOMAIN ledger[file] |-> ledger[file][Len(ledger[file]) + 1 - i]] ELSE << >>

\* a variant that also finds the entries recorded under another spelling of the file's path
InjectionList_AnySpelling(ledger, file) ==
  IF file \in DOMAIN ledger THEN ledger[file]
  ELSE IF \E q \in DOMAIN ledger : Slash(q) = file THEN ledger[CHOOSE q \in DOMAIN ledger : Slash(q) = file]
  ELSE << >>

\* lines 257-258, 267-268: the ledger's entries for the file, as an array
InjectionList(ledger, file) == IF file \in DOMAIN ledger THEN ledger[file] ELSE << >>

CodemodCall(kind, source, list) == [kind |-> kind, source |-> source, list |-> list]

\* a variant that injects the root options first and the imports into the result
InjectFile_OptionsFirst(tree, file, imps, opts) ==
  LET l1 == InjectionList(imps, file)
      l2 == InjectionList(opts, file)
      t1 == IF Len(l2) > 0 THEN runCodemod("injectOptions", tree[file], l2) ELSE tree[file]
      t2 == IF Len(l1) > 0 THEN runCodemod("injectImports", t1, l1) ELSE t1
  IN [ text |-> t2,
       calls |-> (IF Len(l2) > 0 THEN << CodemodCall("injectOptions", tree[file], l2) >> ELSE << >>)
                 \o (IF Len(l1) > 0 THEN << CodemodCall("injectImports", t1, l1) >> ELSE << >>) ]

\* lines 256-276, for one key of the tree: imports first, then root options
InjectFile(tree, file, imps, opts) ==
  LET l1 == InjectionList(imps, file)
      l2 == InjectionList(opts, file)
      t1 == IF Len(l1) > 0 THEN runCodemod("injectImports", tree[file], l1) ELSE tree[file]
      t2 == IF Len(l2) > 0 THEN runCodemod("injectOptions", t1, l2) ELSE t1
  IN [ text |-> t2,
       calls |-> (IF Len(l1) > 0 THEN << CodemodCall("injectImports", tree[file], l1) >> ELSE << >>)
                 \o (IF Len(l2) > 0 THEN << CodemodCall("injectOptions", t1, l2) >> ELSE << >>) ]

\* a variant that runs the callbacks newest first
CallbackAt_Reversed(cbs, i) == cbs[Len(cbs) + 1 - i]

\* lines 247, 278: the i-th callback of a for..of loop
CallbackAt(cbs, i) == cbs[i]

\* no callback: the step is resolveFiles' own
NoCb == Cb("", "", 0, 0, << >>)

\* one step of resolveFiles: the stage, and the callback awaited in it
Step(stage, cb) == [stage |-> stage, cb |-> cb]

\* lines 146-155: generate snapshots the tree, extracts the configs and enters resolveFiles
GenerateEnter ==
  /\ pc = "constructed"
  /\ \E extractAll \in BOOLEAN, checkExisting \in BOOLEAN, disk \in DiskStates :
       LET st == extractConfigFiles(PkgFiles(pkg, files), extractAll, checkExisting, disk, configTransforms, originalPkg, testMode)
       IN /\ pkg' = st.pkg
          /\ files' = st.files
          /\ extractLog' = Append(extractLog, ExtractCall(extractAll, checkExisting))
  /\ initialFiles' = files
  /\ pc' = "middlewares"
  /\ mi' = 1
  /\ UNCHANGED << plugins, modules, installed, testMode, originalPkg, imports, rootOptions,
                  configTransforms, afterInvokeCbs, afterAnyInvokeCbs, postProcessFilesCbs,
                  fileMiddlewares, exitLogs, allPlugins, seedAfterInvoke, savedAny, applyAny,
                  pi, atInjection, codemodCalls, written, query, logged, trace >>

\* lines 247-249: await the next file middleware
RunMiddleware ==
  /\ pc = "middlewares"
  /\ mi <= Len(fileMiddlewares)
  /\ files' = ApplyWrites(files, CallbackAt(fileMiddlewares, mi).w)
  /\ pc' = IF Throws(CallbackAt(fileMiddlewares, mi).w) THEN "thrown" ELSE pc
  /\ mi' = mi + 1
  /\ trace' = Append(trace, Step("middleware", CallbackAt(fileMiddlewares, mi)))
  /\ UNCHANGED << plugins, modules, installed, testMode, originalPkg, pkg, imports,
                  rootOptions, configTransforms, afterInvokeCbs, afterAnyInvokeCbs,
                  postProcessFilesCbs, fileMiddlewares, exitLogs, allPlugins, seedAfterInvoke,
                  savedAny, applyAny, pi, extractLog, initialFiles, atInjection, codemodCalls,
                  written, query, logged >>

\* line 253: normalizeFilePaths(files), once every middleware is done
Normalize ==
  /\ pc = "middlewares"
  /\ mi > Len(fileMiddlewares)
  /\ files' \in NormalizedTrees(files)
  /\ pc' = "inject"
  /\ trace' = Append(trace, Step("normalize", NoCb))
  /\ UNCHANGED << plugins, modules, installed, testMode, originalPkg, pkg, imports,
                  rootOptions, configTransforms, afterInvokeCbs, afterAnyInvokeCbs,
                  postProcessFilesCbs, fileMiddlewares, exitLogs, allPlugins, seedAfterInvoke,
                  savedAny, applyAny, pi, extractLog, initialFiles, mi, atInjection,
                  codemodCalls, written, query, logged >>

\* lines 256-276: imports and root options are injected into every key of the tree
Inject ==
  /\ pc = "inject"
  /\ atInjection' = files
  /\ files' = [f \in DOMAIN files |-> InjectFile(files, f, imports, rootOptions).text]
  /\ codemodCalls' = [f \in DOMAIN files |-> InjectFile(files, f, imports, rootOptions).calls]
  /\ pc' = "postProcess"
  /\ mi' = 1
  /\ trace' = Append(trace, Step("inject", NoCb))
  /\ UNCHANGED << plugins, modules, installed, testMode, originalPkg, pkg, imports,
                  rootOptions, configTransforms, afterInvokeCbs, afterAnyInvokeCbs,
                  postProcessFilesCbs, fileMiddlewares, exitLogs, allPlugins, seedAfterInvoke,
                  savedAny, applyAny, pi, extractLog, initialFiles, written, query, logged >>

\* lines 256-276 when runCodemod throws at one key of the tree: the keys visited
\* before it are injected, the rest of resolveFiles and of generate does not run
InjectThrows ==
  /\ pc = "inject"
  /\ \E f \in DOMAIN files, before \in SUBSET (DOMAIN files) :
       /\ InjectFile(files, f, imports, rootOptions).calls # << >>
       /\ f \notin before
       /\ files' = [q \in DOMAIN files |-> IF q \in before THEN InjectFile(files, q, imports, rootOptions).text ELSE files[q]]
       /\ codemodCalls' = [q \in before \cup { f } |-> InjectFile(files, q, imports, rootOptions).calls]
  /\ atInjection' = files
  /\ pc' = "thrown"
  /\ mi' = 1
  /\ trace' = Append(trace, Step("inject", NoCb))
  /\ UNCHANGED << plugins, modules, installed, testMode, originalPkg, pkg, imports,
                  rootOptions, configTransforms, afterInvokeCbs, afterAnyInvokeCbs,
                  postProcessFilesCbs, fileMiddlewares, exitLogs, allPlugins, seedAfterInvoke,
                  savedAny, applyAny, pi, extractLog, initialFiles, written, query, logged >>

\* a variant that catches what a post-process callback throws and goes on
RunPostProcess_CatchAndGoOn ==
  /\ pc = "postProcess"
  /\ mi <= Len(postProcessFilesCbs)
  /\ files' = ApplyWrites(files, CallbackAt(postProcessFilesCbs, mi).w)
  /\ mi' = mi + 1
  /\ trace' = Append(trace, Step("postProcess", CallbackAt(postProcessFilesCbs, mi)))
  /\ UNCHANGED << pc, plugins, modules, installed, testMode, originalPkg, pkg, imports,
                  rootOptions, configTransforms, afterInvokeCbs, afterAnyInvokeCbs,
                  postProcessFilesCbs, fileMiddlewares, exitLogs, allPlugins, seedAfterInvoke,
                  savedAny, applyAny, pi, extractLog, initialFiles, atInjection, codemodCalls,
                  written, query, logged >>

\* lines 278-280: await the next post-process callback
RunPostProcess ==
  /\ pc = "postProcess"
  /\ mi <= Len(postProcessFilesCbs)
  /\ files' = ApplyWrites(files, CallbackAt(postProcessFilesCbs, mi).w)
  /\ pc' = IF Throws(CallbackAt(postProcessFilesCbs, mi).w) THEN "thrown" ELSE pc
  /\ mi' = mi + 1
  /\ trace' = Append(trace, Step("postProcess", CallbackAt(postProcessFilesCbs, mi)))
  /\ UNCHANGED << plugins, modules, installed, testMode, originalPkg, pkg, imports,
                  rootOptions, configTransforms, afterInvokeCbs, afterAnyInvokeCbs,
                  postProcessFilesCbs, fileMiddlewares, exitLogs, allPlugins, seedAfterInvoke,
                  savedAny, applyAny, pi, extractLog, initialFiles, atInjection, codemodCalls,
                  written, query, logged >>

----------------------------------------------------------------------------
(* sortPkg and the end of generate *)

\* the key names of the model in the order Array.prototype.sort gives strings
AlphaOrder ==
  << "@vue/babel", "@vue/cli-plugin-babel", "@vue/cli-service", "aaa", "author", "babel", "bar", "browser",
     "browserslist", "build", "custom", "dependencies", "deploy", "description", "devDependencies", "e2e",
     "eslintConfig", "files", "foo", "jest", "jsDelivr", "lint", "lodash", "main", "module", "name",
     "peerDependencies", "postcss", "presets", "prettier", "private", "scripts", "serve", "test", "unpkg",
     "version", "vue", "vue-cli-plugin-foo", "zzz" >>

Rank(k) == IndexOf(AlphaOrder, k)

\* the entries of o by ascending key
SortAlpha(o) ==
  [i \in DOMAIN o |-> CHOOSE e \in Range(o) : Cardinality({ d \in Range(o) : Rank(d.k) < Rank(e.k) }) = i - 1]

\* the entries of o whose key is in keyOrder, in keyOrder's order
RECURSIVE Listed(_, _)
Listed(o, keyOrder) ==
  IF keyOrder = << >> THEN << >>
  ELSE (IF Has(o, Head(keyOrder)) THEN << Entry(Head(keyOrder), Get(o, Head(keyOrder))) >> ELSE << >>) \o Listed(o, Tail(keyOrder))

\* the entries of o whose key is not in keyOrder, in their original order
Unlisted(o, keyOrder) == SelectSeq(o, LAMBDA e : e.k \notin Range(keyOrder))

\* util/sortObject: nothing for a missing object; without keyOrder the keys
\* alphabetically; with keyOrder the listed keys first, the rest in original order
sortObject(v, keyOrder) ==
  IF ~Truthy(v) THEN Undef
  ELSE IF v.t # "obj" THEN v
  ELSE IF keyOrder = << >> THEN Obj(SortAlpha(v.o))
  ELSE Obj(Listed(v.o, keyOrder) \o Unlisted(v.o, keyOrder))

\* lines 209-216
ScriptsOrder == << "serve", "build", "test", "e2e", "lint", "deploy" >>

\* lines 217-240
PkgOrder ==
  << "name", "version", "private", "description", "author", "scripts", "main", "module", "browser",
     "jsDelivr", "unpkg", "files", "dependencies", "devDependencies", "peerDependencies", "vue", "babel",
     "eslintConfig", "prettier", "postcss", "browserslist", "jest" >>

\* a variant that leaves dependencies as they were inserted
sortPkg_DepsUnsorted(p) ==
  LET p1 == Put(p, "dependencies", Get(p, "dependencies"))
      p2 == Put(p1, "devDependencies", sortObject(Get(p1, "devDependencies"), << >>))
      p3 == Put(p2, "scripts", sortObject(Get(p2, "scripts"), ScriptsOrder))
  IN sortObject(Obj(p3), PkgOrder).o

\* lines 205-243
sortPkg(p) ==
  LET p1 == Put(p, "dependencies", sortObject(Get(p, "dependencies"), << >>))
      p2 == Put(p1, "devDependencies", sortObject(Get(p1, "devDependencies"), << >>))
      p3 == Put(p2, "scripts", sortObject(Get(p2, "scripts"), ScriptsOrder))
  IN sortObject(Obj(p3), PkgOrder).o

\* JSON.stringify's line break and indentation at a nesting depth, two spaces a level
Indent(depth) == CASE depth = 0 -> "\n" [] depth = 1 -> "\n  " [] OTHER -> "\n    "

\* JSON.stringify(o, null, 2): each entry on a line of its own; undefined values are left out
RECURSIVE PrettyEntries(_, _)
PrettyEntries(o, depth) ==
  IF o = << >> THEN << >>
  ELSE (IF Head(o).v.t = "undef" THEN << >>
        ELSE << Indent(depth), Head(o).k, ": " >>
             \o (IF Head(o).v.t = "obj"
                 THEN << "{" >> \o PrettyEntries(Head(o).v.o, depth + 1) \o << Indent(depth), "}" >>
                 ELSE << Head(o).v.s >>)
             \o << "," >>)
       \o PrettyEntries(Tail(o), depth)

JsonObject(o) == PrettyEntries(o, 1)

\* line 158: JSON.stringify(this.pkg, null, 2) + '\n'
PackageJsonText(p) == << "{" >> \o JsonObject(p) \o << Indent(0), "}", "\n" >>

PackageJson == << "package.json" >>

\* a variant in which the snapshot is the tree object itself, not a copy
SnapshotAt_Alias(snapshot, tree) == tree

\* line 151: initialFiles is a copy made with Object.assign({}, this.files); it
\* holds what was copied whatever the tree has become
SnapshotAt(snapshot, tree) == snapshot

\* a variant that keeps a package.json that is in the tree already
Finish_KeepExisting ==
  /\ pc = "postProcess"
  /\ mi > Len(postProcessFilesCbs)
  /\ pkg' = sortPkg(pkg)
  /\ files' = files @@ (PackageJson :> PackageJsonText(pkg'))
  /\ written' = Append(written, [files |-> files', initialFiles |-> SnapshotAt(initialFiles, files')])
  /\ pc' = "done"
  /\ UNCHANGED << plugins, modules, installed, testMode, originalPkg, imports, rootOptions,
                  configTransforms, afterInvokeCbs, afterAnyInvokeCbs, postProcessFilesCbs,
                  fileMiddlewares, exitLogs, allPlugins, seedAfterInvoke, savedAny, applyAny,
                  pi, extractLog, initialFiles, mi, atInjection, codemodCalls, query, logged, trace >>

\* lines 157-160: sort the manifest, set package.json, hand the tree to the writer
Finish ==
  /\ pc = "postProcess"
  /\ mi > Len(postProcessFilesCbs)
  /\ pkg' = sortPkg(pkg)
  /\ files' = (PackageJson :> PackageJsonText(pkg')) @@ files
  /\ written' = Append(written, [files |-> files', initialFiles |-> SnapshotAt(initialFiles, files')])
  /\ pc' = "done"
  /\ UNCHANGED << plugins, modules, installed, testMode, originalPkg, imports, rootOptions,
                  configTransforms, afterInvokeCbs, afterAnyInvokeCbs, postProcessFilesCbs,
                  fileMiddlewares, exitLogs, allPlugins, seedAfterInvoke, savedAny, applyAny,
                  pi, extractLog, initialFiles, mi, atInjection, codemodCalls, query, logged, trace >>

\* the range argument left out
NoRange == "undefined"

\* semver.satisfies(version, range): false for a version that is no version
satisfies(version, range) ==
  CASE version = "1.9.0" -> range \in { "^1.0.0", ">=1.0.0" }
    [] version = "2.3.0" -> range \in { "^2.0.0", ">=1.0.0" }
    [] OTHER -> FALSE

\* this.pm.getInstalledVersion(id): the version found on disk, "N/A" when none is
getInstalledVersion(versions, id) == versions[id]

\* lines 288-299: Array.prototype.some with the callback of hasPlugin, from index i
RECURSIVE SomeFrom(_, _, _, _, _)
SomeFrom(ids, i, id, range, versions) ==
  IF i > Len(ids) THEN FALSE
  ELSE IF ~matchesPluginId(id, ids[i]) THEN SomeFrom(ids, i + 1, id, range, versions)
  ELSE IF range = NoRange THEN TRUE
  ELSE IF satisfies(getInstalledVersion(versions, ids[i]), range) THEN TRUE
  ELSE SomeFrom(ids, i + 1, id, range, versions)

\* a variant that asks only the explicit invocation list
hasPlugin_ExplicitOnly(id, range, list, all, versions) ==
  SomeFrom([i \in DOMAIN list |-> list[i].id], 1, id, range, versions)

\* lines 284-300: the ids of this.plugins, then this.allPlugins
hasPlugin(id, range, list, all, versions) ==
  SomeFrom([i \in DOMAIN list |-> list[i].id] \o all, 1, id, range, versions)

\* a call of hasPlugin on the generator (by the caller or through a plugin's api)
HasPluginQuery ==
  /\ pc # "new"
  /\ \E id \in AllIds, range \in { NoRange, "^1.0.0", "^2.0.0", ">=1.0.0" } :
       query' = [asked |-> TRUE, id |-> id, range |-> range,
                 result |-> hasPlugin(id, range, plugins, allPlugins, installed)]
  /\ UNCHANGED << pc, plugins, modules, installed, testMode, originalPkg, pkg, files, imports,
                  rootOptions, configTransforms, afterInvokeCbs, afterAnyInvokeCbs,
                  postProcessFilesCbs, fileMiddlewares, exitLogs, allPlugins, seedAfterInvoke,
                  savedAny, applyAny, pi, extractLog, initialFiles, mi, atInjection,
                  codemodCalls, written, logged, trace >>

----------------------------------------------------------------------------
(* printExitLogs *)

\* logTypes[type] (lines 15-21, 306): one of the five logger functions, nothing,
\* or what a plain object inherits: a function that logs nothing ("constructor")
\* or a value that cannot be called ("__proto__")
LogTypeLookup(type) ==
  CASE type \in { "log", "info", "done", "warn", "error" } -> "logger"
    [] type = "constructor" -> "inherited function"
    [] type = "__proto__" -> "not a function"
    [] OTHER -> "undefined"

\* one call of a logger function: logger[fn](text, tag)
LogLine(fn, text, tag) == [fn |-> fn, text |-> text, tag |-> tag]

\* a variant that logs the entry's message with the error
InvalidTypeLine_WithMessage(e) ==
  LogLine("error", << "Invalid api.exitLog type '", e.type, "'.", e.msg >>, toShortPluginId(e.id))

\* line 308: logger.error(`Invalid api.exitLog type '${type}'.`, shortId)
InvalidTypeLine(e) ==
  LogLine("error", << "Invalid api.exitLog type '", e.type, "'." >>, toShortPluginId(e.id))

\* line 310: logFn(msg, msg && shortId)
ValidLine(e) == LogLine(e.type, << e.msg >>, IF e.msg # "" THEN toShortPluginId(e.id) ELSE "")

NoLogged == [flushed |-> FALSE, out |-> << >>, handled |-> 0, threw |-> FALSE]

\* lines 304-312: exitLogs.forEach from entry i on, then logger.log() at line 313
RECURSIVE PrintFrom(_, _, _)
PrintFrom(queue, i, out) ==
  IF i > Len(queue) THEN [flushed |-> TRUE, out |-> Append(out, LogLine("log", << >>, "")), handled |-> Len(queue), threw |-> FALSE]
  ELSE LET e == queue[i]
           found == LogTypeLookup(e.type)
       IN CASE found = "undefined" -> PrintFrom(queue, i + 1, Append(out, InvalidTypeLine(e)))
            [] found = "logger" -> PrintFrom(queue, i + 1, Append(out, ValidLine(e)))
            [] found = "inherited function" -> PrintFrom(queue, i + 1, out)
            [] OTHER -> [flushed |-> TRUE, out |-> out, handled |-> i - 1, threw |-> TRUE]

\* lines 302-315
printExitLogs(queue) ==
  IF Len(queue) > 0 THEN PrintFrom(queue, 1, << >>) ELSE [NoLogged EXCEPT !.flushed = TRUE]

PrintExitLogsCall ==
  /\ pc \in { "constructed", "done" }
  /\ logged' = printExitLogs(exitLogs)
  /\ UNCHANGED << pc, plugins, modules, installed, testMode, originalPkg, pkg, files, imports,
                  rootOptions, configTransforms, afterInvokeCbs, afterAnyInvokeCbs,
                  postProcessFilesCbs, fileMiddlewares, exitLogs, allPlugins, seedAfterInvoke,
                  savedAny, applyAny, pi, extractLog, initialFiles, mi, atInjection,
                  codemodCalls, written, query, trace >>

----------------------------------------------------------------------------
(* Initial states: a Generator about to be constructed *)

\* a callback the caller passed in afterInvokeCbs / afterAnyInvokeCbs
SeedCb == Cb("caller", "seed", 0, 1, << >>)

NoQuery == [asked |-> FALSE, id |-> "", range |-> NoRange, result |-> FALSE]

DefaultInstalled == [id \in AllIds |-> "1.0.0"]

NoModules == [id \in AllIds |-> NoModule]

\* everything the constructor sets before it looks at its arguments (lines 79-99)
InitFields ==
  /\ pc = "new"
  /\ pkg = originalPkg
  /\ imports = << >>
  /\ rootOptions = << >>
  /\ configTransforms = << >>
  /\ afterInvokeCbs = << >>
  /\ postProcessFilesCbs = << >>
  /\ fileMiddlewares = << >>
  /\ exitLogs = << >>
  /\ allPlugins = << >>
  /\ savedAny = << >>
  /\ applyAny = << >>
  /\ pi = 0
  /\ extractLog = << >>
  /\ initialFiles = << >>
  /\ mi = 0
  /\ atInjection = << >>
  /\ codemodCalls = << >>
  /\ written = << >>
  /\ query = NoQuery
  /\ logged = NoLogged
  /\ trace = << >>

Dep(id) == Entry(id, Str("^1.0.0"))

\* manifests with nothing, one, or several packages installed
CtorPkgs ==
  { << >>,
    << Entry("devDependencies", Obj(<< Dep("@vue/cli-plugin-babel") >>)) >>,
    << Entry("dependencies", Obj(<< Dep("vue-cli-plugin-foo"), Dep("lodash") >>)),
       Entry("devDependencies", Obj(<< Dep("@vue/cli-service"), Dep("@vue/cli-plugin-babel") >>)) >> }

\* a hooks export that touches every hook list and the tree
BusyHooks ==
  << OpAfterInvoke, OpPostProcessFiles(<< >>), OpRender(<< Write(<< "README.md" >>, << "readme" >>) >>), OpAfterAnyInvoke >>

CtorModules == { NoModule, ModuleNoHooks, ModuleWithHooks(<< OpAfterAnyInvoke >>), ModuleWithHooks(BusyHooks) }

CtorPlugins ==
  { Plugin(id, apply, hooks # << >>, hooks) :
      id \in PluginIds,
      apply \in { << >>, << OpAfterAnyInvoke >>, << OpPostProcessFiles(<< >>), OpAfterAnyInvoke >> },
      hooks \in { << >>, << OpAfterAnyInvoke >> } }

InitCtor ==
  /\ plugins \in SeqsUpTo(CtorPlugins, MaxPlugins)
  /\ \E mm \in [PluginIds -> CtorModules] : modules = [id \in AllIds |-> IF isPlugin(id) THEN mm[id] ELSE NoModule]
  /\ installed = DefaultInstalled
  /\ testMode = FALSE
  /\ originalPkg \in CtorPkgs
  /\ files = << >>
  /\ afterAnyInvokeCbs \in { << >>, << SeedCb >> }
  /\ seedAfterInvoke = << >>
  /\ InitFields

NextCtor == DiscoveryPass \/ ApplyPlugin \/ LoadAnyHooks

SpecCtor == InitCtor /\ [][NextCtor]_vars

----------------------------------------------------------------------------
(* Claims about the constructor *)

IsAnyOp(ops, n) == n \in DOMAIN ops /\ ops[n].op = "afterAnyInvoke"

\* the after-any-invoke callbacks the hooks of the installed plugin at position i registers
DiscoveredBy(i) ==
  LET m == modules[allPlugins[i]]
  IN IF m.generator /\ m.hasHooks
     THEN { Cb(allPlugins[i], "discovery", i, n, << >>) : n \in { k \in DOMAIN m.hooks : IsAnyOp(m.hooks, k) } }
     ELSE {}

Discovered == UNION { DiscoveredBy(i) : i \in DOMAIN allPlugins }

\* registration order: the caller's callbacks, then the discovery pass by plugin and call
CbBefore(c, d) ==
  \/ c.pass = "seed" /\ d.pass # "seed"
  \/ c.pass = d.pass /\ (c.at < d.at \/ (c.at = d.at /\ c.n < d.n))

\* C1 as stated: once constructed, the after-any-invoke list is every callback
\* registered in the apply pass followed by every callback collected in the
\* discovery pass.
C1_Merged ==
  pc = "constructed" => afterAnyInvokeCbs = applyAny \o savedAny

\* C1 as amended: once constructed, the after-any-invoke list is exactly the
\* caller-supplied callbacks followed by the callbacks collected in the discovery
\* pass, in registration order; the callbacks registered in the apply pass are
\* not in it.
C1_DiscoveryOnly ==
  pc = "constructed" =>
    /\ \A c \in Range(afterAnyInvokeCbs) : c.pass = "seed" \/ c \in Discovered
    /\ Discovered \subseteq Range(afterAnyInvokeCbs)
    /\ \A c \in Range(applyAny) : c \notin Range(afterAnyInvokeCbs)
    /\ \A i, j \in DOMAIN afterAnyInvokeCbs : i < j => CbBefore(afterAnyInvokeCbs[i], afterAnyInvokeCbs[j])

\* a constructed generator whose apply pass and discovery pass both registered
\* after-any-invoke callbacks
C1_Witness ==
  /\ pc = "constructed"
  /\ applyAny # << >>
  /\ Discovered # {}
  /\ Len(afterAnyInvokeCbs) = Cardinality(Discovered)

InstalledKeys == Range(KeysOrEmpty(Get(originalPkg, "dependencies"))) \cup Range(KeysOrEmpty(Get(originalPkg, "devDependencies")))

ExplicitIds == { plugins[i].id : i \in DOMAIN plugins }

\* C2: once constructed, for every plugin id in the manifest's dependencies or
\* devDependencies whose generator module exposes hooks, each after-any-invoke
\* callback those hooks register is in the after-any-invoke list, whether or not
\* the plugin is in the explicit invocation list.
C2_InstalledHooksKept ==
  pc = "constructed" =>
    \A id \in InstalledKeys :
      (isPlugin(id) /\ modules[id].generator /\ modules[id].hasHooks) =>
        \A n \in DOMAIN modules[id].hooks :
          IsAnyOp(modules[id].hooks, n) =>
            \E c \in Range(afterAnyInvokeCbs) : c.by = id /\ c.pass = "discovery" /\ c.n = n

\* a constructed generator holding a callback of an installed plugin that is not
\* in the explicit invocation list, next to explicit plugins that were applied
C2_Witness ==
  /\ pc = "constructed"
  /\ plugins # << >>
  /\ \E c \in Range(afterAnyInvokeCbs) : c.pass = "discovery" /\ c.by \in InstalledKeys /\ c.by \notin ExplicitIds

----------------------------------------------------------------------------
(* Extraction: initial states and claims *)

Named == Entry("name", Str("x"))

OptionalEntry(k, vals) == { << >> } \cup { << Entry(k, v) >> : v \in vals }

\* original manifests: tool fields absent, present, or present with an empty value
ExtractPkgs ==
  { << Named >> \o b \o v \o e :
      b \in OptionalEntry("babel", { Str(""), Str("orig") }),
      v \in OptionalEntry("vue", { Str("orig") }),
      e \in OptionalEntry("eslintConfig", { Str("orig") }) }

BabelObj == Obj(<< Entry("presets", Str("a")) >>)

\* what a plugin's apply does to the manifest and the transform registry
ExtractScripts ==
  { << >>,
    << OpExtendPackage("babel", BabelObj) >>,
    << OpExtendPackage("babel", Str("")) >>,
    << OpExtendPackage("vue", Str("a")), OpExtendPackage("babel", Str("a")) >>,
    << OpExtendPackage("eslintConfig", Str("a")), OpExtendPackage("babel", BabelObj) >>,
    << OpExtendPackage("jest", Str("a")), OpExtendPackage("postcss", Str("a")), OpExtendPackage("browserslist", Str("a")) >>,
    << OpExtendPackage("custom", Str("a")), OpAddConfigTransform("custom", << Cand("json", "custom.json") >>) >>,
    << OpExtendPackage("vue", Str("a")), OpAddConfigTransform("vue", << Cand("json", "vue.json") >>),
       OpAddConfigTransform("babel", << Cand("json", ".babelrc") >>), OpExtendPackage("babel", Str("a")) >> }

ExtractPlugins == { Plugin("@vue/cli-plugin-babel", script, FALSE, << >>) : script \in ExtractScripts }

InitExtract ==
  /\ plugins \in SeqsUpTo(ExtractPlugins, 1)
  /\ modules = NoModules
  /\ installed = DefaultInstalled
  /\ testMode \in BOOLEAN
  /\ originalPkg \in ExtractPkgs
  /\ files \in { << >>, (<< ".eslintrc.json" >> :> << "json", "old" >>) }
  /\ afterAnyInvokeCbs = << >>
  /\ seedAfterInvoke = << >>
  /\ InitFields

NextExtract == DiscoveryPass \/ ApplyPlugin \/ LoadAnyHooks \/ ExtractConfigFilesCall

SpecExtract == InitExtract /\ [][NextExtract]_vars

\* this step is a call of extractConfigFiles
ExtractStep == Len(extractLog') = Len(extractLog) + 1

LastCall(log) == log[Len(log)]

FileSame(f, g, name) == (name \in DOMAIN f <=> name \in DOMAIN g) /\ (name \in DOMAIN f => f[name] = g[name])

CandidateFiles(K) ==
  LET t == MergedConfigTransforms(configTransforms)
  IN IF K \in DOMAIN t THEN { t[K][i].file : i \in DOMAIN t[K] } ELSE {}

\* the call left field K and K's config files alone
Untouched(K) ==
  /\ Has(pkg', K) <=> Has(pkg, K)
  /\ Get(pkg', K) = Get(pkg, K)
  /\ \A name \in CandidateFiles(K) : FileSame(files, files', name)

\* the call moved field K out of the manifest into a config file ending in a newline
Moved(K) ==
  /\ Has(pkg, K)
  /\ ~Has(pkg', K)
  /\ \E name \in CandidateFiles(K) :
       /\ name \in DOMAIN files'
       /\ files'[name][Len(files'[name])] = "\n"

\* the keys a call hands to extract
CalledKeys(call) ==
  IF call.extractAll THEN Range(Keys(pkg)) ELSE (IF testMode THEN {} ELSE { "vue" }) \cup { "babel" }

\* C3 as stated: every call of extractConfigFiles leaves every key of the
\* original manifest, whatever its value, in the working manifest with the value
\* it had, and writes no config file for it.
C3_OriginalFieldsKept ==
  [][ ExtractStep => \A K \in Range(Keys(originalPkg)) : Has(pkg', K) /\ Untouched(K) ]_vars

\* C4 as stated: extract(key) moves the field into its config file exactly when
\* a transform is registered for key, the field is present in the manifest and
\* the field is absent from the original manifest; otherwise it changes nothing.
C4_MoveExactlyWhen ==
  [][ ExtractStep =>
        \A K \in CalledKeys(LastCall(extractLog')) :
          IF K \in DOMAIN MergedConfigTransforms(configTransforms) /\ Has(pkg, K) /\ ~Has(originalPkg, K)
          THEN Moved(K) ELSE Untouched(K) ]_vars

\* C5: a call of extractConfigFiles that directly follows a call with the same
\* extractAll changes neither the manifest nor the tree.
C5_SecondCallNoOp ==
  [][ (ExtractStep /\ extractLog # << >> /\ LastCall(extractLog').extractAll = LastCall(extractLog).extractAll)
        => (pkg' = pkg /\ files' = files) ]_vars

\* two calls with the same extractAll were made and the first one extracted babel
C5_Witness ==
  /\ Len(extractLog) = 2
  /\ extractLog[1].extractAll = extractLog[2].extractAll
  /\ plugins # << >>
  /\ ~Has(pkg, "babel")
  /\ << "babel.config.js" >> \in DOMAIN files

----------------------------------------------------------------------------
(* generate: initial states and claims about resolveFiles *)

MainJs == << "src", "/", "main.js" >>

MainJsWin == << "src", "\\", "main.js" >>

AppVue == << "src", "/", "App.vue" >>

\* what a plugin's apply does to the tree and the ledger
ResolveScripts ==
  { << >>,
    << OpRender(<< Write(MainJs, << "A" >>) >>), OpInjectImports(MainJs, "x") >>,
    << OpRender(<< Write(MainJs, << "B" >>) >>), OpInjectImports(MainJs, "y"), OpInjectImports(MainJs, "x"),
       OpInjectRootOptions(MainJs, "o") >>,
    << OpRender(<< Write(MainJsWin, << "C" >>) >>), OpInjectImports(MainJsWin, "z") >>,
    << OpInjectImports(AppVue, "x"), OpInjectImports(MainJs, "z") >>,
    << OpRender(<< Write(AppVue, << "D" >>), Remove(MainJs) >>), OpPostProcessFiles(<< Write(MainJs, << "E" >>) >>) >> }

ResolvePlugins == { Plugin("vue-cli-plugin-foo", script, FALSE, << >>) : script \in ResolveScripts }

Init ==
  /\ plugins \in SeqsUpTo(ResolvePlugins, MaxPlugins)
  /\ modules = NoModules
  /\ installed = DefaultInstalled
  /\ testMode = FALSE
  /\ originalPkg = << Named >>
  /\ files \in { << >>, (MainJs :> << "seed" >>) }
  /\ afterAnyInvokeCbs = << >>
  /\ seedAfterInvoke = << >>
  /\ InitFields

Next ==
  \/ DiscoveryPass
  \/ ApplyPlugin
  \/ LoadAnyHooks
  \/ GenerateEnter
  \/ RunMiddleware
  \/ Normalize
  \/ Inject
  \/ RunPostProcess
  \/ Finish

Spec == Init /\ [][Next]_vars

\* the injection stage of resolveFiles is over
Injected == pc \in { "postProcess", "done" }

OpsOf(i) == plugins[i].apply \o (IF plugins[i].hasHooks THEN plugins[i].hooks ELSE << >>)

\* the import specifiers plugin i registers for path
ImportsOf(i, path) ==
  { OpsOf(i)[n].item : n \in { k \in DOMAIN OpsOf(i) : OpsOf(i)[k].op = "injectImports" /\ OpsOf(i)[k].path = path } }

LedgerPaths == UNION { { OpsOf(i)[n].path : n \in { k \in DOMAIN OpsOf(i) : OpsOf(i)[k].op = "injectImports" } } : i \in DOMAIN plugins }

\* the injection engine was called for path with a list holding the specifiers
\* of plugins i and j, those of i before those only j registered
CalledInOrder(path, i, j) ==
  /\ path \in DOMAIN codemodCalls
  /\ \E c \in DOMAIN codemodCalls[path] :
       LET call == codemodCalls[path][c]
       IN /\ call.kind = "injectImports"
          /\ ImportsOf(i, path) \cup ImportsOf(j, path) \subseteq Range(call.list)
          /\ \A a \in ImportsOf(i, path), b \in ImportsOf(j, path) \ ImportsOf(i, path) :
               IndexOf(call.list, a) < IndexOf(call.list, b)

\* C6 as stated: when plugin i is applied before plugin j and both register
\* import specifiers for one path, resolveFiles calls the injection engine for
\* that path with both plugins' specifiers, those of i first.
C6_LedgerOrder ==
  Injected =>
    \A i, j \in DOMAIN plugins : \A path \in LedgerPaths :
      (i < j /\ ImportsOf(i, path) # {} /\ ImportsOf(j, path) # {}) => CalledInOrder(path, i, j)

\* the specifiers for path that plugin j is the first to register
FirstBy(j, path) == ImportsOf(j, path) \ UNION { ImportsOf(k, path) : k \in 1..(j - 1) }

\* the injection engine was called for path with a list holding the specifiers
\* of plugins i and j, those of i before those j was the first to register
CalledInFirstOrder(path, i, j) ==
  /\ path \in DOMAIN codemodCalls
  /\ \E c \in DOMAIN codemodCalls[path] :
       LET call == codemodCalls[path][c]
       IN /\ call.kind = "injectImports"
          /\ NoDup(call.list)
          /\ ImportsOf(i, path) \cup ImportsOf(j, path) \subseteq Range(call.list)
          /\ \A a \in ImportsOf(i, path), b \in FirstBy(j, path) :
               IndexOf(call.list, a) < IndexOf(call.list, b)

\* C6 as amended: for a path that is a key of the tree once the paths are
\* normalized, the injection engine is called with both plugins' specifiers,
\* each once, those of i before those j was the first to register; for any other
\* path the injection engine is not called.
C6_LedgerOrderInTree ==
  Injected =>
    \A i, j \in DOMAIN plugins : \A path \in LedgerPaths :
      (i < j /\ ImportsOf(i, path) # {} /\ ImportsOf(j, path) # {}) =>
        IF path \in DOMAIN atInjection THEN CalledInFirstOrder(path, i, j) ELSE path \notin DOMAIN codemodCalls

\* two plugins registered different specifiers for src/main.js, which is in the
\* tree, and the injection stage has run
C6_Witness ==
  /\ Injected
  /\ Len(plugins) = 2
  /\ ImportsOf(1, MainJs) # {}
  /\ ImportsOf(2, MainJs) \ ImportsOf(1, MainJs) # {}
  /\ MainJs \in DOMAIN atInjection
  /\ Len(codemodCalls[MainJs][1].list) > 1

RECURSIVE RenderWrites(_)
RenderWrites(ops) ==
  IF ops = << >> THEN << >>
  ELSE (IF Head(ops).op = "render" THEN Head(ops).w ELSE << >>) \o RenderWrites(Tail(ops))

LastWrite(i, key) ==
  LET w == RenderWrites(OpsOf(i))
      hits == { n \in DOMAIN w : w[n].path = key }
  IN IF hits = {} THEN Remove(key) ELSE w[CHOOSE n \in hits : \A m \in hits : m <= n]

\* plugin i renders the whole file at key
WritesKey(i, key) == ~LastWrite(i, key).del

Contribution(i, key) == LastWrite(i, key).text

HasRequests(path) ==
  \/ path \in DOMAIN imports /\ imports[path] # << >>
  \/ path \in DOMAIN rootOptions /\ rootOptions[path] # << >>

\* C7: with the plugins [P1, P2] both writing the whole file src/main.js, the
\* text that enters the injection stage for src/main.js is the one P2 wrote, and
\* the injections requested for that path are applied to P2's text.
C7_LastWriterWins ==
  (Injected /\ Len(plugins) = 2 /\ WritesKey(1, MainJs) /\ WritesKey(2, MainJs)) =>
    /\ MainJs \in DOMAIN atInjection
    /\ atInjection[MainJs] = Contribution(2, MainJs)
    /\ HasRequests(MainJs) => codemodCalls[MainJs] # << >>
    /\ codemodCalls[MainJs] # << >> => codemodCalls[MainJs][1].source = Contribution(2, MainJs)

\* P1 and P2 wrote different texts to src/main.js, both requested injections
\* for it, and the injection stage has run
C7_Witness ==
  /\ Injected
  /\ Len(plugins) = 2
  /\ WritesKey(1, MainJs)
  /\ WritesKey(2, MainJs)
  /\ Contribution(1, MainJs) # Contribution(2, MainJs)
  /\ ImportsOf(1, MainJs) # {}
  /\ Len(codemodCalls[MainJs]) = 2

NormalizeStep == pc = "middlewares" /\ pc' = "inject"

InjectStep == pc = "inject" /\ pc' = "postProcess"

HasBackslash(path) == "\\" \in Range(path)

\* normalization leaves forward-slash keys only, one per location that was in
\* the tree, each holding the text of an entry that named the location
Collapsed ==
  /\ \A q \in DOMAIN files' : ~HasBackslash(q)
  /\ DOMAIN files' = { Slash(p) : p \in DOMAIN files }
  /\ \A q \in DOMAIN files' : \E p \in DOMAIN files : Slash(p) = q /\ files'[q] = files[p]

\* what the ledger holds under exactly this spelling of the path
Recorded(ledger, path) == IF path \in DOMAIN ledger THEN ledger[path] ELSE << >>

LedgerOf(kind) == IF kind = "injectImports" THEN imports ELSE rootOptions

\* this step called the injection engine for loc with a list holding the requests
AppliedTo(loc, kind, requests) ==
  \E c \in DOMAIN codemodCalls'[loc] :
    /\ codemodCalls'[loc][c].kind = kind
    /\ Range(requests) \subseteq Range(codemodCalls'[loc][c].list)

\* C8 as stated: once the paths are normalized no key holds a backslash and the
\* keys that named one location are one entry; the injection requests recorded
\* for that location, under either spelling of its path, are applied to that entry.
C8_NormalizedAndInjected ==
  [][ /\ NormalizeStep => Collapsed
      /\ InjectStep =>
           \A kind \in { "injectImports", "injectOptions" } : \A q \in DOMAIN LedgerOf(kind) :
             Slash(q) \in DOMAIN files => AppliedTo(Slash(q), kind, LedgerOf(kind)[q]) ]_vars

\* C8 as amended: once the paths are normalized no key holds a backslash and
\* the keys that named one location are one entry; the injection requests
\* recorded under the forward-slash path of that location are applied to that
\* entry, and requests recorded under a backslash-separated path are not applied.
C8_NormalizedForwardOnly ==
  [][ /\ NormalizeStep => Collapsed
      /\ InjectStep =>
           \A loc \in DOMAIN files :
             /\ \A kind \in { "injectImports", "injectOptions" } :
                  Recorded(LedgerOf(kind), loc) # << >> => AppliedTo(loc, kind, Recorded(LedgerOf(kind), loc))
             /\ \A c \in DOMAIN codemodCalls'[loc] :
                  codemodCalls'[loc][c].list = Recorded(LedgerOf(codemodCalls'[loc][c].kind), loc)
             /\ codemodCalls'[loc] # << >> => codemodCalls'[loc][1].source = files[loc] ]_vars

\* one plugin wrote src\main.js, another src/main.js, requests were recorded
\* under both spellings, and the single entry left has been injected
C8_Witness ==
  /\ Injected
  /\ \E i \in DOMAIN plugins : WritesKey(i, MainJsWin)
  /\ \E i \in DOMAIN plugins : WritesKey(i, MainJs)
  /\ MainJs \in DOMAIN imports
  /\ MainJsWin \in DOMAIN imports
  /\ DOMAIN atInjection = { MainJs }
  /\ codemodCalls[MainJs] # << >>

----------------------------------------------------------------------------
(* sortPkg: initial states and claims *)

\* every order in which the entries of a set can have been inserted
Orders(S) == { o \in [1..Cardinality(S) -> S] : \A i, j \in DOMAIN o : o[i] = o[j] => i = j }

SortScripts == Orders({ Entry("serve", Str("s")), Entry("zzz", Str("z")), Entry("aaa", Str("a")) })

SortDeps == Orders({ Dep("lodash"), Dep("@vue/cli-service") })

\* one manifest content in every insertion order, top level and nested
SortPkgs ==
  UNION { Orders({ Entry("scripts", Obj(sc)), Entry("dependencies", Obj(d)), Entry("zzz", Str("z")), Entry("aaa", Str("a")) }) :
            sc \in SortScripts, d \in SortDeps }

InitSort ==
  /\ plugins = << >>
  /\ modules = NoModules
  /\ installed = DefaultInstalled
  /\ testMode = FALSE
  /\ originalPkg \in SortPkgs
  /\ files = << >>
  /\ afterAnyInvokeCbs = << >>
  /\ seedAfterInvoke = << >>
  /\ InitFields

NextSort == DiscoveryPass \/ LoadAnyHooks \/ GenerateEnter \/ Normalize \/ Inject \/ Finish

SpecSort == InitSort /\ [][NextSort]_vars

SameValue(v, w) == v.t = w.t /\ (IF v.t = "obj" THEN Range(v.o) = Range(w.o) ELSE v = w)

\* the same keys with the same values, at the top level and inside the objects
SameContent(p, q) ==
  /\ Range(Keys(p)) = Range(Keys(q))
  /\ \A k \in Range(Keys(p)) : SameValue(Get(p, k), Get(q, k))

\* the keys outside keyOrder, as inserted
KeysOutside(o, keyOrder) == SelectSeq(Keys(o), LAMBDA k : k \notin Range(keyOrder))

\* the keys no priority list names were inserted in the same relative order
SameUnlistedOrder(p, q) ==
  /\ KeysOutside(p, PkgOrder) = KeysOutside(q, PkgOrder)
  /\ KeysOutside(Get(p, "scripts").o, ScriptsOrder) = KeysOutside(Get(q, "scripts").o, ScriptsOrder)

----------------------------------------------------------------------------
(* hasPlugin: initial states and claims *)

\* what getInstalledVersion can answer for a package
Versions == { "1.9.0", "2.3.0", "N/A" }

\* the packages an invocation names: plugins and the service
QueryIds == PluginIds \cup { "@vue/cli-service" }

QueryPlugins == { Plugin(id, << >>, FALSE, << >>) : id \in QueryIds }

InitQuery ==
  /\ plugins \in SeqsUpTo(QueryPlugins, MaxPlugins)
  /\ modules = NoModules
  /\ \E v \in [PluginIds -> Versions] : installed = [id \in AllIds |-> IF isPlugin(id) THEN v[id] ELSE "N/A"]
  /\ testMode = FALSE
  /\ originalPkg \in CtorPkgs
  /\ files = << >>
  /\ afterAnyInvokeCbs = << >>
  /\ seedAfterInvoke = << >>
  /\ InitFields

NextQuery == DiscoveryPass \/ ApplyPlugin \/ LoadAnyHooks \/ HasPluginQuery

SpecQuery == InitQuery /\ [][NextQuery]_vars

\* the ids present: the explicit invocation list and the installed set
PresentIds == ExplicitIds \cup Range(allPlugins)

\* C10: hasPlugin(id, range) answers true exactly when some id of the explicit
\* invocation list or of the installed set matches id (exact or short form) and,
\* with a range given, the installed version of that package satisfies the
\* range; otherwise, a missing installed version included, it answers false.
C10_HasPluginIff ==
  query.asked =>
    /\ query.result \in BOOLEAN
    /\ query.result =
         (\E full \in PresentIds :
            /\ matchesPluginId(query.id, full)
            /\ query.range # NoRange => installed[full] \in Versions \ { "N/A" } /\ satisfies(installed[full], query.range))

\* asked by short form with a range for a plugin that is only in the installed
\* set and whose installed version cannot be resolved: the answer was false
C10_Witness ==
  /\ query.asked
  /\ query.id = "babel"
  /\ query.range = "^2.0.0"
  /\ "@vue/cli-plugin-babel" \in Range(allPlugins) \ ExplicitIds
  /\ installed["@vue/cli-plugin-babel"] = "N/A"
  /\ query.result = FALSE

----------------------------------------------------------------------------
(* Runs in which something throws *)

\* what a plugin's apply may do, throwing included
AbortScripts ==
  { << >>,
    << OpRender(<< Write(MainJs, << "A" >>) >>), OpInjectImports(MainJs, "x") >>,
    << OpRender(<< Write(AppVue, << "D" >>) >>), OpThrow >>,
    << OpRender(<< Write(MainJs, << "B" >>), Throw >>) >>,
    << OpPostProcessFiles(<< Write(MainJs, << "E" >>) >>), OpPostProcessFiles(<< Throw >>) >> }

AbortPlugins ==
  { Plugin("vue-cli-plugin-foo", script, hooks # << >>, hooks) :
      script \in AbortScripts, hooks \in { << >>, << OpThrow >> } }

AbortPkgs == { << Named >>, << Named, Entry("devDependencies", Obj(<< Dep("@vue/cli-plugin-babel") >>)) >> }

InitAbort ==
  /\ plugins \in SeqsUpTo(AbortPlugins, MaxPlugins)
  /\ \E m \in { NoModule, ModuleWithHooks(<< OpAfterAnyInvoke >>), ModuleWithHooks(<< OpAfterAnyInvoke, OpThrow >>) } :
       modules = [id \in AllIds |-> IF id = "@vue/cli-plugin-babel" THEN m ELSE NoModule]
  /\ installed = DefaultInstalled
  /\ testMode = FALSE
  /\ originalPkg \in AbortPkgs
  /\ files \in { << >>, (MainJs :> << "seed" >>) }
  /\ afterAnyInvokeCbs = << >>
  /\ seedAfterInvoke = << >>
  /\ InitFields

NextAbort ==
  \/ DiscoveryPass
  \/ ApplyPlugin
  \/ LoadAnyHooks
  \/ GenerateEnter
  \/ RunMiddleware
  \/ Normalize
  \/ Inject
  \/ InjectThrows
  \/ RunPostProcess
  \/ Finish

SpecAbort == InitAbort /\ [][NextAbort]_vars

HasThrow(ops) == \E n \in DOMAIN ops : ops[n].op = "throw"

\* some function or callback the run has to call throws
SomethingThrows ==
  \/ \E i \in DOMAIN plugins : HasThrow(plugins[i].apply) \/ (plugins[i].hasHooks /\ HasThrow(plugins[i].hooks))
  \/ \E i \in DOMAIN allPlugins : modules[allPlugins[i]].generator /\ modules[allPlugins[i]].hasHooks /\ HasThrow(modules[allPlugins[i]].hooks)
  \/ \E i \in DOMAIN fileMiddlewares : \E n \in DOMAIN fileMiddlewares[i].w : fileMiddlewares[i].w[n].throw
  \/ \E i \in DOMAIN postProcessFilesCbs : \E n \in DOMAIN postProcessFilesCbs[i].w : postProcessFilesCbs[i].w[n].throw

\* extraction, the four stages of resolveFiles and the serialization are over
PipelineComplete ==
  /\ Len(extractLog) = 1
  /\ DOMAIN codemodCalls = DOMAIN atInjection
  /\ mi > Len(postProcessFilesCbs)
  /\ PackageJson \in DOMAIN files /\ files[PackageJson] = PackageJsonText(pkg)

\* C11: the writer is invoked at most once in a generate call, only with
\* extraction, resolution and serialization complete, and never in a run in
\* which a plugin's apply or hooks, a file middleware, the injection engine or a
\* post-process callback throws.
C11_WriterOnlyAfterAll ==
  /\ Len(written) <= 1
  /\ written # << >> => pc = "done" /\ PipelineComplete /\ written[1].files = files /\ ~SomethingThrows
  /\ pc = "thrown" => written = << >>
  /\ (pc = "done" /\ ~SomethingThrows) => Len(written) = 1

\* generate was entered, a post-process callback threw after the injections
\* were done, and the writer was not invoked
C11_Witness ==
  /\ pc = "thrown"
  /\ Len(extractLog) = 1
  /\ DOMAIN codemodCalls = DOMAIN atInjection /\ MainJs \in DOMAIN codemodCalls
  /\ \E i \in DOMAIN postProcessFilesCbs : Throw \in Range(postProcessFilesCbs[i].w)
  /\ written = << >>

----------------------------------------------------------------------------
(* printExitLogs: initial states and claims *)

LogScripts ==
  { << OpExitLog("m", t) >> : t \in { "log", "info", "done", "warn", "error", "fatal", "constructor", "__proto__" } }
    \cup { << OpExitLog("", "warn") >>, << OpExitLog("m", "fatal"), OpExitLog("n", "done") >> }

LogPlugins == { Plugin(id, script, FALSE, << >>) : id \in PluginIds, script \in LogScripts }

InitLog ==
  /\ plugins \in SeqsUpTo(LogPlugins, MaxPlugins)
  /\ modules = NoModules
  /\ installed = DefaultInstalled
  /\ testMode = FALSE
  /\ originalPkg = << Named >>
  /\ files = << >>
  /\ afterAnyInvokeCbs = << >>
  /\ seedAfterInvoke = << >>
  /\ InitFields

NextLog == DiscoveryPass \/ ApplyPlugin \/ LoadAnyHooks \/ PrintExitLogsCall

SpecLog == InitLog /\ [][NextLog]_vars

Severities == { "log", "info", "done", "warn", "error" }

\* names every plain object answers to without having them as its own keys
InheritedNames == { "constructor", "__proto__" }

\* C12 as stated: once the queue is flushed, every entry with a severity outside
\* the five was reported through the error channel with the plugin's short id
\* and with the entry's message; the flush did not throw and handled every entry.
C12_InvalidReportedWithMessage ==
  logged.flushed =>
    /\ ~logged.threw
    /\ logged.handled = Len(exitLogs)
    /\ \A i \in DOMAIN exitLogs :
         exitLogs[i].type \notin Severities =>
           \E n \in DOMAIN logged.out :
             /\ logged.out[n].fn = "error"
             /\ logged.out[n].tag = toShortPluginId(exitLogs[i].id)
             /\ exitLogs[i].msg \in Range(logged.out[n].text)

\* C12 as amended: an entry whose severity names no property of the severity
\* table, own or inherited, and which the flush reaches, is reported through the
\* error channel as an invalid type, naming the severity and the plugin's short
\* id and without the entry's message; it does not make the flush throw, and
\* the flush goes on with the next entry.
C12_InvalidReportedByType ==
  logged.flushed =>
    \A i \in DOMAIN exitLogs :
      (/\ exitLogs[i].type \notin Severities \cup InheritedNames
       /\ \A j \in 1..(i - 1) : exitLogs[j].type # "__proto__") =>
        /\ \E n \in DOMAIN logged.out :
             /\ logged.out[n].fn = "error"
             /\ logged.out[n].tag = toShortPluginId(exitLogs[i].id)
             /\ exitLogs[i].type \in Range(logged.out[n].text)
             /\ exitLogs[i].msg \notin Range(logged.out[n].text)
        /\ logged.handled >= i
        /\ logged.threw => \E j \in (i + 1)..Len(exitLogs) : exitLogs[j].type = "__proto__"
        /\ (\A j \in (i + 1)..Len(exitLogs) : exitLogs[j].type \in Severities) =>
             logged.handled = Len(exitLogs) /\ logged.out[Len(logged.out)] = LogLine("log", << >>, "")

\* a queue with an entry of unknown severity followed by a valid one was flushed
C12_Witness ==
  /\ logged.flushed
  /\ Len(exitLogs) = 2
  /\ exitLogs[1].type = "fatal" /\ exitLogs[1].msg = "m"
  /\ exitLogs[2].type = "done"
  /\ Len(logged.out) = 3

----------------------------------------------------------------------------
(* extractConfigFiles: which transform, which fields *)

\* the transform the precedence reserved > plugin > default names for field K
TransformByPrecedence(K) ==
  IF K \in DOMAIN reservedConfigTransforms THEN reservedConfigTransforms[K]
  ELSE IF K \in DOMAIN configTransforms THEN configTransforms[K]
  ELSE defaultConfigTransforms[K]

\* every file name some registry lists for field K
AnyRegistryFiles(K) ==
  UNION { { t[K][i].file : i \in DOMAIN t[K] } :
            t \in { r \in { reservedConfigTransforms, configTransforms, defaultConfigTransforms } : K \in DOMAIN r } }

\* text begins with the tokens of prefix
StartsWith(text, prefix) == Len(text) >= Len(prefix) /\ SubSeq(text, 1, Len(prefix)) = prefix

\* the call wrote field K's value to a file of descriptor desc, in that file's format
WrittenBy(desc, K) ==
  \E i \in DOMAIN desc :
    /\ desc[i].file \in DOMAIN files'
    /\ ~FileSame(files, files', desc[i].file)
    /\ StartsWith(files'[desc[i].file], << desc[i].type >> \o JsonValue(Get(pkg, K)))

\* C13: a field that a call of extractConfigFiles extracts is written by the
\* reserved transform if the field is reserved, else by the plugin-contributed
\* one if there is one, else by the default; the files only the other
\* registries name for the field are not written.
C13_TransformPrecedence ==
  [][ ExtractStep =>
        \A K \in Range(Keys(pkg)) :
          (Has(pkg, K) /\ ~Has(pkg', K)) =>
            LET desc == TransformByPrecedence(K)
            IN /\ WrittenBy(desc, K)
               /\ \A name \in AnyRegistryFiles(K) \ { desc[i].file : i \in DOMAIN desc } : FileSame(files, files', name) ]_vars

\* a plugin registered transforms for the reserved field vue and for babel;
\* vue went to the reserved file and babel to the plugin's
C13_Witness ==
  /\ extractLog # << >>
  /\ "vue" \in DOMAIN configTransforms /\ "babel" \in DOMAIN configTransforms
  /\ ~Has(pkg, "vue") /\ ~Has(pkg, "babel")
  /\ << "vue.config.js" >> \in DOMAIN files
  /\ << ".babelrc" >> \in DOMAIN files

\* the fields a call took out of the manifest
RemovedKeys == Range(Keys(pkg)) \ Range(Keys(pkg'))

----------------------------------------------------------------------------
(* resolveFiles: the order of its steps *)

StageRank(stage) ==
  CASE stage = "middleware" -> 1
    [] stage = "normalize" -> 2
    [] stage = "inject" -> 3
    [] stage = "postProcess" -> 4

\* the callbacks awaited in a stage, in the order they were awaited
AwaitedIn(stage) ==
  LET steps == SelectSeq(trace, LAMBDA e : e.stage = stage)
  IN [k \in DOMAIN steps |-> steps[k].cb]

StepsOf(stage) == { i \in DOMAIN trace : trace[i].stage = stage }

\* C15: the steps of resolveFiles come stage by stage: every file middleware,
\* then the normalization, then the injections, then the post-process
\* callbacks; the callbacks of a stage are awaited one after the other in
\* registration order, each one finished before the next is started.
C15_StagesInOrder ==
  /\ \A i, j \in DOMAIN trace : i < j => StageRank(trace[i].stage) <= StageRank(trace[j].stage)
  /\ Cardinality(StepsOf("normalize")) <= 1 /\ Cardinality(StepsOf("inject")) <= 1
  /\ StepsOf("normalize") # {} => AwaitedIn("middleware") = fileMiddlewares
  /\ StepsOf("inject") # {} => StepsOf("normalize") # {}
  /\ StepsOf("postProcess") # {} => StepsOf("inject") # {}
  /\ \A k \in DOMAIN AwaitedIn("middleware") : AwaitedIn("middleware")[k] = fileMiddlewares[k]
  /\ \A k \in DOMAIN AwaitedIn("postProcess") : AwaitedIn("postProcess")[k] = postProcessFilesCbs[k]
  /\ pc = "done" => AwaitedIn("postProcess") = postProcessFilesCbs

\* a run with two different file middlewares, an injection and two different
\* post-process callbacks is over
C15_Witness ==
  /\ pc = "done"
  /\ Len(fileMiddlewares) = 2 /\ fileMiddlewares[1] # fileMiddlewares[2]
  /\ Len(postProcessFilesCbs) = 2 /\ postProcessFilesCbs[1] # postProcessFilesCbs[2]
  /\ Len(trace) = 6

----------------------------------------------------------------------------
(* resolveFiles: the injection stage *)

\* the calls of one kind among the calls made for a file
CallsOfKind(calls, kind) == SelectSeq(calls, LAMBDA c : c.kind = kind)

\* C16: the injection stage calls the engine for a key of the tree at most once
\* for imports and at most once for options, each only when the ledger holds
\* requests of that kind for the key, the imports call first and the options
\* call on its output; a key without requests keeps its content, and no key is
\* added or removed.
C16_InjectionStage ==
  [][ InjectStep =>
        /\ DOMAIN files' = DOMAIN files
        /\ DOMAIN codemodCalls' \subseteq DOMAIN files
        /\ \A f \in DOMAIN files :
             LET calls == codemodCalls'[f]
                 imps == CallsOfKind(calls, "injectImports")
                 opts == CallsOfKind(calls, "injectOptions")
             IN /\ Len(calls) = Len(imps) + Len(opts)
                /\ Len(imps) = (IF Recorded(imports, f) # << >> THEN 1 ELSE 0)
                /\ Len(opts) = (IF Recorded(rootOptions, f) # << >> THEN 1 ELSE 0)
                /\ Len(imps) = 1 => calls[1] = imps[1] /\ imps[1].source = files[f] /\ imps[1].list = Recorded(imports, f)
                /\ Len(opts) = 1 =>
                     /\ opts[1].list = Recorded(rootOptions, f)
                     /\ opts[1].source = (IF Len(imps) = 1 THEN runCodemod("injectImports", files[f], imps[1].list) ELSE files[f])
                     /\ files'[f] = runCodemod("injectOptions", opts[1].source, opts[1].list)
                /\ Len(calls) = 0 => files'[f] = files[f] ]_vars

\* the stage ran on a tree with a key that has imports and options recorded and
\* a key that has neither
C16_Witness ==
  /\ pc = "postProcess"
  /\ MainJs \in DOMAIN codemodCalls /\ Len(codemodCalls[MainJs]) = 2
  /\ AppVue \in DOMAIN codemodCalls /\ Len(codemodCalls[AppVue]) = 0
  /\ files[AppVue] = atInjection[AppVue]

----------------------------------------------------------------------------
(* generate: what the writer is handed *)

\* what a plugin's apply does to the manifest and to package.json in the tree
ManifestScripts ==
  { << >>,
    << OpExtendPackage("babel", BabelObj), OpExtendPackage("zzz", Str("z")) >>,
    << OpExtendPackage("devDependencies", Obj(<< Dep("lodash"), Dep("@vue/cli-service") >>)),
       OpRender(<< Write(PackageJson, << "rendered" >>) >>) >>,
    << OpExtendPackage("vue", Str("v")), OpRender(<< Write(MainJs, << "A" >>) >>), OpPostProcessFiles(<< Write(PackageJson, << "late" >>) >>) >>,
    << OpRender(<< Write(AppVue, << "D" >>), Remove(MainJs) >>), OpPostProcessFiles(<< Remove(PackageJson), Write(MainJs, << "E" >>) >>) >> }

ManifestPlugins == { Plugin("vue-cli-plugin-foo", script, FALSE, << >>) : script \in ManifestScripts }

InitManifest ==
  /\ plugins \in SeqsUpTo(ManifestPlugins, MaxPlugins)
  /\ modules = NoModules
  /\ installed = DefaultInstalled
  /\ testMode = FALSE
  /\ originalPkg \in { << Named >>, << Entry("scripts", Obj(<< Entry("build", Str("b")), Entry("serve", Str("s")) >>)), Named >> }
  /\ files \in { << >>, (PackageJson :> << "seed" >>), (MainJs :> << "seed" >>) }
  /\ afterAnyInvokeCbs = << >>
  /\ seedAfterInvoke = << >>
  /\ InitFields

SpecManifest == InitManifest /\ [][Next]_vars

\* this step hands the tree to the writer
WriteStep == Len(written') = Len(written) + 1

\* the manifest fields that went to config files
ExtractedFields == { K \in { "vue", "babel" } : ~Has(pkg, K) }

\* C17: the package.json entry of the tree the writer is handed is the
\* two-space JSON text, ending in a newline, of the sorted manifest as extraction
\* and resolution left it, whatever the tree held under package.json before;
\* no field extracted to a config file appears in it.
C17_PackageJsonFromManifest ==
  [][ WriteStep =>
        LET tree == written'[Len(written')].files
            text == tree[PackageJson]
        IN /\ PackageJson \in DOMAIN tree
           /\ text = PackageJsonText(sortPkg(pkg))
           /\ text[Len(text)] = "\n"
           /\ \A K \in Range(Keys(pkg)) : Get(pkg, K).t # "undef" => \E n \in DOMAIN text : text[n] = "\n  " /\ text[n + 1] = K
           /\ \A K \in ExtractedFields : K \notin Range(text)
           /\ \A q \in DOMAIN tree \ { PackageJson } : q \in DOMAIN files /\ tree[q] = files[q] ]_vars

\* the writer was handed a tree whose package.json a plugin had written, after
\* babel had been extracted
C17_Witness ==
  /\ pc = "done"
  /\ \E i \in DOMAIN fileMiddlewares \cup DOMAIN postProcessFilesCbs :
       \/ i \in DOMAIN fileMiddlewares /\ Write(PackageJson, << "rendered" >>) \in Range(fileMiddlewares[i].w)
       \/ i \in DOMAIN postProcessFilesCbs /\ Write(PackageJson, << "late" >>) \in Range(postProcessFilesCbs[i].w)
  /\ << "babel.config.js" >> \in DOMAIN files
  /\ ~Has(pkg, "babel")
  /\ Len(written) = 1

----------------------------------------------------------------------------
(* Constructor: what the discovery pass leaves behind *)

\* a hooks export that uses its API handle for more than hooks
GreedyHooks ==
  << OpExtendPackage("babel", BabelObj), OpRender(<< Write(<< "README.md" >>, << "readme" >>) >>),
     OpPostProcessFiles(<< >>), OpAfterInvoke, OpAfterAnyInvoke >>

DiscoveryScripts ==
  { << >>,
    << OpExtendPackage("vue", Str("v")), OpRender(<< Write(MainJs, << "A" >>) >>) >>,
    << OpAfterInvoke, OpPostProcessFiles(<< >>), OpAfterAnyInvoke >> }

DiscoveryPlugins == { Plugin(id, script, FALSE, << >>) : id \in PluginIds, script \in DiscoveryScripts }

InitDiscovery ==
  /\ plugins \in SeqsUpTo(DiscoveryPlugins, MaxPlugins)
  /\ \E mm \in [PluginIds -> { NoModule, ModuleWithHooks(<< OpAfterAnyInvoke >>), ModuleWithHooks(BusyHooks), ModuleWithHooks(GreedyHooks) }] :
       modules = [id \in AllIds |-> IF isPlugin(id) THEN mm[id] ELSE NoModule]
  /\ installed = DefaultInstalled
  /\ testMode = FALSE
  /\ originalPkg \in CtorPkgs
  /\ files = << >>
  /\ afterAnyInvokeCbs = << >>
  /\ seedAfterInvoke \in { << >>, << SeedCb >> }
  /\ InitFields

SpecDiscovery == InitDiscovery /\ [][NextCtor]_vars

RECURSIVE OpsOfAll(_)
OpsOfAll(i) == IF i > Len(plugins) THEN << >> ELSE OpsOf(i) \o OpsOfAll(i + 1)

\* what the hooks functions of the installed plugins call, in allPlugins order
RECURSIVE HookOpsFrom(_)
HookOpsFrom(i) ==
  IF i > Len(allPlugins) THEN << >>
  ELSE LET m == modules[allPlugins[i]]
       IN (IF m.generator /\ m.hasHooks THEN m.hooks ELSE << >>) \o HookOpsFrom(i + 1)

\* the manifest after the extendPackage calls among ops
RECURSIVE Extended(_, _)
Extended(p, ops) ==
  IF ops = << >> THEN p
  ELSE Extended(IF Head(ops).op = "extendPackage" THEN Put(p, Head(ops).key, Head(ops).val) ELSE p, Tail(ops))

FromDiscovery(cbs) == SelectSeq(cbs, LAMBDA cb : cb.pass = "discovery")

CountOps(ops, name) == Len(SelectSeq(ops, LAMBDA o : o.op = name))

\* C18 as stated: after construction the manifest is as the apply pass alone
\* left it, and the after-invoke, post-process and file-middleware lists hold
\* no callback registered in the discovery pass.
C18_DiscoveryIsolated ==
  pc = "constructed" =>
    /\ pkg = Extended(originalPkg, OpsOfAll(1))
    /\ FromDiscovery(afterInvokeCbs) = << >>
    /\ FromDiscovery(postProcessFilesCbs) = << >>
    /\ FromDiscovery(fileMiddlewares) = << >>

\* C18 as amended: after construction the after-invoke list is the caller's
\* seed followed by apply-pass entries and the post-process list holds apply-pass
\* callbacks only; the file middlewares registered and the manifest edits made
\* through the handle in the discovery pass are still there.
C18_HookListsIsolated ==
  pc = "constructed" =>
    /\ FromDiscovery(afterInvokeCbs) = << >>
    /\ SubSeq(afterInvokeCbs, 1, Len(seedAfterInvoke)) = seedAfterInvoke
    /\ Len(afterInvokeCbs) = Len(seedAfterInvoke) + CountOps(OpsOfAll(1), "afterInvoke")
    /\ FromDiscovery(postProcessFilesCbs) = << >>
    /\ Len(postProcessFilesCbs) = CountOps(OpsOfAll(1), "postProcessFiles")
    /\ Len(FromDiscovery(fileMiddlewares)) = CountOps(HookOpsFrom(1), "render")
    /\ pkg = Extended(originalPkg, HookOpsFrom(1) \o OpsOfAll(1))

\* an installed plugin's hooks function edited the manifest and registered a
\* file middleware, a post-process callback and an after-invoke callback, and
\* an explicit plugin registered callbacks in the apply pass
C18_Witness ==
  /\ pc = "constructed"
  /\ CountOps(HookOpsFrom(1), "extendPackage") > 0
  /\ CountOps(HookOpsFrom(1), "postProcessFiles") > 0
  /\ FromDiscovery(fileMiddlewares) # << >>
  /\ postProcessFilesCbs # << >>
  /\ seedAfterInvoke # << >> /\ Len(afterInvokeCbs) > 1

\* this step enters generate
EnterStep == pc = "constructed" /\ pc' = "middlewares"

\* C19: the snapshot the writer is handed maps the paths the tree held when
\* generate was entered to the contents they had then; nothing that extraction,
\* the file middlewares, normalization, injection, the post-process callbacks or
\* the package.json write do to the tree changes it.
C19_SnapshotIsEntryTree ==
  [][ /\ EnterStep => initialFiles' = files
      /\ (~EnterStep /\ pc \notin { "new", "apply", "constructed" }) => initialFiles' = initialFiles
      /\ WriteStep => written'[Len(written')].initialFiles = initialFiles ]_vars

\* the writer was handed a snapshot with src/main.js and package.json as they
\* were at entry, and a tree in which both had been replaced and files added
C19_Witness ==
  /\ pc = "done"
  /\ Len(written) = 1
  /\ written[1].initialFiles \in { (PackageJson :> << "seed" >>), (MainJs :> << "seed" >>) }
  /\ \A q \in DOMAIN written[1].initialFiles : q \in DOMAIN written[1].files /\ written[1].files[q] # << "seed" >>
  /\ << "babel.config.js" >> \in DOMAIN written[1].files

----------------------------------------------------------------------------
(* resolveFiles: requests for paths that are not in the tree *)

\* the paths the ledgers hold requests for that are no key of the tree
OrphanPaths == (DOMAIN imports \cup DOMAIN rootOptions) \ DOMAIN files

\* the text of a key of the tree after the injection of the requests recorded
\* under that very key, and of no others
OwnInjection(f) ==
  LET t1 == IF Recorded(imports, f) # << >> THEN runCodemod("injectImports", files[f], Recorded(imports, f)) ELSE files[f]
  IN IF Recorded(rootOptions, f) # << >> THEN runCodemod("injectOptions", t1, Recorded(rootOptions, f)) ELSE t1

\* C20: a request recorded for a path that is not a key of the normalized tree
\* has no effect: the injection stage does not call the engine for it, creates
\* no entry for it and does not fail; every key of the tree gets its own
\* requests injected, and the post-process callbacks are all awaited afterwards.
C20_OrphanRequestsIgnored ==
  [][ /\ InjectStep =>
           /\ \A p \in OrphanPaths : p \notin DOMAIN files' /\ p \notin DOMAIN codemodCalls'
           /\ \A f \in DOMAIN files :
                /\ f \in DOMAIN files' /\ files'[f] = OwnInjection(f)
                /\ \A c \in DOMAIN codemodCalls'[f] : codemodCalls'[f][c].list \in { Recorded(imports, f), Recorded(rootOptions, f) }
      /\ (pc = "inject" /\ pc' # "inject") => pc' = "postProcess"
      /\ WriteStep => AwaitedIn("postProcess") = postProcessFilesCbs ]_vars

\* the ledger held imports for src/main.js, which was not in the tree at the
\* injection stage; src/App.vue was injected and the post-process callbacks ran
C20_Witness ==
  /\ pc = "done"
  /\ MainJs \in DOMAIN imports
  /\ MainJs \notin DOMAIN atInjection
  /\ AppVue \in DOMAIN codemodCalls /\ Len(codemodCalls[AppVue]) = 1
  /\ AwaitedIn("postProcess") # << >>

====
